---- MODULE Spec2Model ----
(***************************************************************************)
(* The classifieds backend of ads/views.py over the tables of              *)
(* ads/models.py: Category, Location, AdUser (with its many-to-many        *)
(* through table) and Ad.  Every view is one action that runs the whole    *)
(* handler against the store and leaves its HTTP response in `response`.   *)
(* The store writes of a handler are autocommitted one by one, so a        *)
(* handler that raises half way leaves its earlier writes in the store.    *)
(* The user views are also modelled query by query, served by several      *)
(* workers whose queries interleave.                                       *)
(***************************************************************************)
EXTENDS Integers, Sequences, FiniteSets, TLC

VARIABLES
    TOTAL_ON_PAGE,    \* settings.TOTAL_ON_PAGE, the page size of every paginator
    categories,       \* table Category:  pk -> [name, is_active]
    locations,        \* table Location:  pk -> [name]
    users,            \* table AdUser:    pk -> [first_name, last_name, username, password, role, age]
    user_locations,   \* through table of AdUser.location_names: set of <<user pk, location pk>>
    ads,              \* table Ad:        pk -> [name, price, is_published, author, category]
    next_pk,          \* the auto-increment counters of the tables
    response,         \* the response of the last request
    workers           \* the requests in progress: worker -> its request and position in the handler

store == <<categories, locations, users, user_locations, ads, next_pk>>
vars == <<TOTAL_ON_PAGE, categories, locations, users, user_locations, ads, next_pk, response, workers>>

(***************************************************************************)
(* Bounds of the model.                                                    *)
(***************************************************************************)
MaxCategories == 3
MaxAds == 3
MaxUsers == 3
MaxLocations == 2
MaxPageSize == 2

(***************************************************************************)
(* Values.  None is Python's None / SQL NULL in a text column or a missing *)
(* JSON key read with dict.get; a null foreign key is the pk NoAuthor.     *)
(***************************************************************************)
None == "<None>"
NoAuthor == 0

Range(f) == {f[x] : x \in DOMAIN f}
Max(a, b) == IF a >= b THEN a ELSE b

(***************************************************************************)
(* The constraints of ads/models.py that Model.full_clean() enforces.      *)
(***************************************************************************)
CategoryNameMaxLength == 20
NameMaxLength == 20
SlugMaxLength == 30
ROLES == {"member", "moderator", "admin"}
PositiveSmallIntegerMax == 32767

\* The strings of the model that match the slug pattern [-a-zA-Z0-9_]+ .
Slugs == {"ann", "bob", "cyd", "pw1", "pw2"}

\* CharField(max_length=n), blank=False: neither null, nor empty, nor too long.
CleanChar(value, max_length) ==
    /\ value # None
    /\ value # ""
    /\ Len(value) <= max_length

(***************************************************************************)
(* Query strings.  request.GET maps the keys that are present to strings;  *)
(* int() of a page value is the table IntLiterals.                          *)
(***************************************************************************)
IntLiterals == [s \in {"-1", "0", "1", "2", "3", "4", "5", "60", "100"} |->
                  CASE s = "-1" -> -1 [] s = "0" -> 0 [] s = "1" -> 1 [] s = "2" -> 2
                    [] s = "3" -> 3 [] s = "4" -> 4 [] s = "5" -> 5
                    [] s = "60" -> 60 [] s = "100" -> 100]

\* str(n) of the page numbers a client asks for.
PageLiterals == <<"1", "2", "3", "4", "5">>

GET_get(GET, key) == IF key \in DOMAIN GET THEN GET[key] ELSE None

(***************************************************************************)
(* django.core.paginator.Paginator as the list views use it                *)
(* (orphans = 0, allow_empty_first_page = True).                           *)
(***************************************************************************)
CeilDiv(a, b) == (a + b - 1) \div b

\* num_pages as the quotient plus one: a page too many when count is a
\* multiple of per_page.
Paginator_num_pages_quotient(count, per_page) == count \div per_page + 1

\* Paginator.num_pages: hits = max(1, count - orphans); ceil(hits / per_page)
Paginator_num_pages(count, per_page) == CeilDiv(Max(1, count), per_page)

\* Paginator.get_page: the number of the page that is served.
\* PageNotAnInteger (None, "abc") -> 1; EmptyPage (< 1 or > num_pages) -> num_pages.
Paginator_get_page(number, count, per_page) ==
    IF number \notin DOMAIN IntLiterals
      THEN 1
      ELSE IF IntLiterals[number] < 1 \/ IntLiterals[number] > Paginator_num_pages(count, per_page)
             THEN Paginator_num_pages(count, per_page)
             ELSE IntLiterals[number]

\* Paginator.page(number).object_list: object_list[bottom:top]
Paginator_page(object_list, number, per_page) ==
    LET bottom == (number - 1) * per_page
        top == IF bottom + per_page >= Len(object_list) THEN Len(object_list) ELSE bottom + per_page
    IN  SubSeq(object_list, bottom + 1, top)

(***************************************************************************)
(* QuerySet.order_by: the database returns the rows in an order that       *)
(* agrees with the sort key; rows with equal keys come in whatever order   *)
(* the query plan gives, which may differ from one query to the next.      *)
(***************************************************************************)
Orderings(pks) ==
    {s \in [1..Cardinality(pks) -> pks] : \A i, j \in DOMAIN s : i # j => s[i] # s[j]}

\* Collation rank of the category names of the model (ORDER BY name).
NameRank == [n \in {"Books", "Cars", "Pets", "Toys"} |->
               CASE n = "Books" -> 1 [] n = "Cars" -> 2 [] n = "Pets" -> 3 [] n = "Toys" -> 4]

\* Category.objects.all().order_by("name")
CategoryQuerySets ==
    {s \in Orderings(DOMAIN categories) :
        \A i, j \in DOMAIN s : i < j => NameRank[categories[s[i]].name] <= NameRank[categories[s[j]].name]}

\* The same with a price_to filter whose default, when the key is absent, is 0.
AdQuerySets_price_to_default(GET) ==
    LET price_to == IF "price_to" \in DOMAIN GET THEN IntLiterals[GET["price_to"]] ELSE 0
        pks == {pk \in DOMAIN ads : ads[pk].price <= price_to}
    IN  {s \in Orderings(pks) :
            \A i, j \in DOMAIN s : i < j => ads[s[i]].price >= ads[s[j]].price}

\* Ad.objects.all().select_related("author").order_by("-price"): no filter of
\* the query string is applied, whatever GET holds.
AdQuerySets(GET) ==
    {s \in Orderings(DOMAIN ads) :
        \A i, j \in DOMAIN s : i < j => ads[s[i]].price >= ads[s[j]].price}

(***************************************************************************)
(* Projections.                                                            *)
(***************************************************************************)
\* user.location_names.all() mapped through Location.__str__
LocationNames(user_pk) == {locations[p[2]].name : p \in {q \in user_locations : q[1] = user_pk}}

\* ad.author.username and ad.author.location_names raise AttributeError on a null author.
AdRaises(pk) == ads[pk].author = NoAuthor

AdProjection(pk) ==
    [id |-> pk,
     name |-> ads[pk].name,
     price |-> ads[pk].price,
     is_published |-> ads[pk].is_published,
     author |-> users[ads[pk].author].username,
     category |-> categories[ads[pk].category].name,
     location_names |-> LocationNames(ads[pk].author)]

CategoryProjection(pk) == [id |-> pk, name |-> categories[pk].name]

SeqMap(Op(_), s) == [i \in DOMAIN s |-> Op(s[i])]

(***************************************************************************)
(* The requests of the model.                                              *)
(***************************************************************************)
PageQueries == {<< >>} \cup {[page |-> p] : p \in {"abc", "0", "1", "2", "5"}}
FilterQueries ==
    { << >>,
      [price_from |-> "60"],
      [cat |-> "1", text |-> "sofa", loc |-> "moscow", price_from |-> "60", price_to |-> "100"] }
AdListQueries == {p @@ f : p \in PageQueries, f \in FilterQueries}

PathPks == 1..3
\* The pks of the update requests: a row of the first store, and a pk past the
\* rows of every table.
UpdatePks == {1, Max(Max(MaxCategories, MaxUsers), MaxAds) + 1}

\* The first MaxLocations of the location names, and the lists of at most two
\* of them that a body carries as location_names.
LocationNameList == <<"Moscow", "Tula", "Kazan", "Omsk">>
BodyLocationNames == {LocationNameList[i] : i \in 1..MaxLocations}
LocationLists ==
    {<< >>} \cup {<<a>> : a \in BodyLocationNames}
            \cup {l \in {<<a, b>> : a \in BodyLocationNames, b \in BodyLocationNames} : l[1] # l[2]}

(***************************************************************************)
(* GET /cat/  CategoryListView.get                                         *)
(***************************************************************************)
CategoryListView_get(GET) ==
    /\ \E object_list \in CategoryQuerySets :
         LET count == Len(object_list)
             number == Paginator_get_page(GET_get(GET, "page"), count, TOTAL_ON_PAGE)
             page_obj == Paginator_page(object_list, number, TOTAL_ON_PAGE)
         IN  response' = [op |-> "CategoryList", GET |-> GET, status |-> 200,
                          number |-> number,
                          items |-> SeqMap(CategoryProjection, page_obj),
                          num_pages |-> Paginator_num_pages(count, TOTAL_ON_PAGE),
                          total |-> count]
    /\ UNCHANGED <<TOTAL_ON_PAGE, workers, store>>

(***************************************************************************)
(* GET /cat/<pk>/  CategoryDetailView.get                                  *)
(***************************************************************************)
CategoryDetailView_get(pk) ==
    /\ response' = IF pk \notin DOMAIN categories
                     THEN [op |-> "CategoryDetail", pk |-> pk, status |-> 404]
                     ELSE [op |-> "CategoryDetail", pk |-> pk, status |-> 200,
                           body |-> CategoryProjection(pk)]
    /\ UNCHANGED <<TOTAL_ON_PAGE, workers, store>>

(***************************************************************************)
(* GET /ad/  AdListView.get                                                *)
(***************************************************************************)
\* The response once the query has returned object_list.
AdListResponse(GET, object_list) ==
    LET count == Len(object_list)
        number == Paginator_get_page(GET_get(GET, "page"), count, TOTAL_ON_PAGE)
        page_obj == Paginator_page(object_list, number, TOTAL_ON_PAGE)
    IN  IF \E i \in DOMAIN page_obj : AdRaises(page_obj[i])
          THEN [op |-> "AdList", GET |-> GET, status |-> 500, error |-> "AttributeError"]
          ELSE [op |-> "AdList", GET |-> GET, status |-> 200,
                number |-> number,
                items |-> SeqMap(AdProjection, page_obj),
                num_pages |-> Paginator_num_pages(count, TOTAL_ON_PAGE),
                total |-> count]

AdListView_get(GET) ==
    /\ \E object_list \in AdQuerySets(GET) : response' = AdListResponse(GET, object_list)
    /\ UNCHANGED <<TOTAL_ON_PAGE, workers, store>>

\* A client that reads the whole list, a request (and so a query) per page:
\* GET /ad/?page=1, then page=2, ... with the same filters, up to the num_pages
\* of its first response, keeping the responses it got.  Each step is one
\* AdListView.get; the client starts over when it has all pages.
AdListPages(filters) ==
    LET reading == /\ response.op = "AdListPages"
                   /\ response.GET = filters
                   /\ response.pages[1].status = 200
                   /\ Len(response.pages) < response.pages[1].num_pages
        got == IF reading THEN response.pages ELSE << >>
        GET == filters @@ [page |-> PageLiterals[Len(got) + 1]]
    IN  /\ \E object_list \in AdQuerySets(GET) :
             response' = [op |-> "AdListPages", GET |-> filters, status |-> 200,
                          pages |-> Append(got, AdListResponse(GET, object_list))]
        /\ UNCHANGED <<TOTAL_ON_PAGE, workers, store>>

(***************************************************************************)
(* GET /ad/<pk>/  AdDetailView.get                                         *)
(***************************************************************************)
AdDetailView_get(pk) ==
    /\ response' = IF pk \notin DOMAIN ads
                     THEN [op |-> "AdDetail", pk |-> pk, status |-> 404]
                     ELSE IF AdRaises(pk)
                            THEN [op |-> "AdDetail", pk |-> pk, status |-> 500,
                                  error |-> "AttributeError"]
                            ELSE [op |-> "AdDetail", pk |-> pk, status |-> 200,
                                  body |-> AdProjection(pk)]
    /\ UNCHANGED <<TOTAL_ON_PAGE, workers, store>>

(***************************************************************************)
(* GET /user/  AdUserListView.get: filter(is_published=True) on AdUser     *)
(* raises FieldError before any page is read.                              *)
(***************************************************************************)
AdUserListView_get(GET) ==
    /\ response' = [op |-> "AdUserList", GET |-> GET, status |-> 500, error |-> "FieldError"]
    /\ UNCHANGED <<TOTAL_ON_PAGE, workers, store>>

(***************************************************************************)
(* GET /user/<pk>/  AdUserDetailView.get                                   *)
(***************************************************************************)
AdUserDetailView_get(pk) ==
    /\ response' = IF pk \notin DOMAIN users
                     THEN [op |-> "AdUserDetail", pk |-> pk, status |-> 404]
                     ELSE [op |-> "AdUserDetail", pk |-> pk, status |-> 200,
                           body |-> [id |-> pk,
                                     first_name |-> users[pk].first_name,
                                     last_name |-> users[pk].last_name,
                                     username |-> users[pk].username,
                                     role |-> users[pk].role,
                                     age |-> users[pk].age,
                                     location_names |-> LocationNames(pk)]]
    /\ UNCHANGED <<TOTAL_ON_PAGE, workers, store>>

(***************************************************************************)
(* JSON bodies: a body maps the keys that are present to their values.     *)
(***************************************************************************)
Drop(body, key) == [k \in DOMAIN body \ {key} |-> body[k]]
body_get(body, key) == IF key \in DOMAIN body THEN body[key] ELSE None

LongName == "AnExceedinglyLongCategoryName"

(***************************************************************************)
(* Model.full_clean(): clean_fields of every column, then validate_unique. *)
(***************************************************************************)
Category_full_clean(row) == CleanChar(row.name, CategoryNameMaxLength)

\* `row` is the in-memory AdUser of pk `pk`; its username has been set to the
\* AdUser `found`, which clean_fields turns into str(found) = found.username.
AdUser_full_clean(pk, row) ==
    /\ CleanChar(row.first_name, NameMaxLength)
    /\ CleanChar(row.last_name, NameMaxLength)
    /\ row.username \in Slugs /\ Len(row.username) <= SlugMaxLength
    /\ row.password \in Slugs /\ Len(row.password) <= SlugMaxLength
    /\ row.role \in ROLES
    /\ row.age >= 0 /\ row.age <= PositiveSmallIntegerMax
    /\ \A other \in DOMAIN users \ {pk} : users[other].username # row.username

(***************************************************************************)
(* Deletion with on_delete=CASCADE (models.py): the ads of a deleted       *)
(* category or author go with it, and so do a user's through rows.         *)
(***************************************************************************)
Remove(table, pks) == [pk \in DOMAIN table \ pks |-> table[pk]]

AdsOfCategory(pk) == {a \in DOMAIN ads : ads[a].category = pk}
AdsOfAuthor(pk) == {a \in DOMAIN ads : ads[a].author = pk}

\* The category row alone, as with on_delete=DO_NOTHING.
Category_delete_row(pk) ==
    /\ categories' = Remove(categories, {pk})
    /\ ads' = ads

Category_delete(pk) ==
    /\ categories' = Remove(categories, {pk})
    /\ ads' = Remove(ads, AdsOfCategory(pk))

AdUser_delete(pk) ==
    /\ users' = Remove(users, {pk})
    /\ user_locations' = {p \in user_locations : p[1] # pk}
    /\ ads' = Remove(ads, AdsOfAuthor(pk))

(***************************************************************************)
(* Location.objects.get_or_create(name=location), in the loop              *)
(*     for location in locations: location_obj, _ = ...                    *)
(* st = [locations, next, location_obj, error]; location_obj is 0 while    *)
(* the name is unbound.                                                    *)
(***************************************************************************)
Unbound == 0

Location_get_or_create(st, name) ==
    LET found == {pk \in DOMAIN st.locations : st.locations[pk].name = name}
    IN  IF st.error # None THEN st
        ELSE IF Cardinality(found) > 1
          THEN [st EXCEPT !.error = "MultipleObjectsReturned"]
        ELSE IF found # {}
          THEN [st EXCEPT !.location_obj = CHOOSE pk \in found : TRUE]
        ELSE [locations |-> st.locations @@ (st.next :> [name |-> name]),
              next |-> st.next + 1,
              location_obj |-> st.next,
              error |-> None]

RECURSIVE ForLocations(_, _)
ForLocations(st, names) ==
    IF names = << >> THEN st
    ELSE ForLocations(Location_get_or_create(st, Head(names)), Tail(names))

LocationLoop(names) ==
    ForLocations([locations |-> locations, next |-> next_pk.location,
                  location_obj |-> Unbound, error |-> None], names)

(***************************************************************************)
(* POST /cat/create/  CategoryCreateView.post: the row is created from the *)
(* keys of the body, no validation; is_active defaults to True.            *)
(***************************************************************************)
CategoryCreateView_post(body) ==
    /\ next_pk.category <= MaxCategories
    /\ LET pk == next_pk.category
           row == [name |-> body.name,
                   is_active |-> IF "is_active" \in DOMAIN body THEN body.is_active ELSE TRUE]
       IN  /\ categories' = categories @@ (pk :> row)
           /\ next_pk' = [next_pk EXCEPT !.category = pk + 1]
           /\ response' = [op |-> "CategoryCreate", status |-> 200,
                           body |-> [id |-> pk, name |-> row.name]]
    /\ UNCHANGED <<TOTAL_ON_PAGE, workers, locations, users, user_locations, ads>>

(***************************************************************************)
(* PATCH /cat/<pk>/update/  CategoryUpdateView.patch                       *)
(***************************************************************************)
CategoryUpdateView_patch(pk, body) ==
    IF pk \notin DOMAIN categories
      THEN /\ response' = [op |-> "CategoryUpdate", pk |-> pk, request |-> body, status |-> 404]
           /\ UNCHANGED <<TOTAL_ON_PAGE, workers, store>>
    ELSE IF "name" \notin DOMAIN body \/ "is_active" \notin DOMAIN body
      THEN /\ response' = [op |-> "CategoryUpdate", pk |-> pk, request |-> body, status |-> 500,
                           error |-> "KeyError"]
           /\ UNCHANGED <<TOTAL_ON_PAGE, workers, store>>
    ELSE LET object == [name |-> body.name, is_active |-> body.is_active]
         IN  IF ~Category_full_clean(object)
               THEN /\ response' = [op |-> "CategoryUpdate", pk |-> pk, request |-> body,
                                    status |-> 422]
                    /\ UNCHANGED <<TOTAL_ON_PAGE, workers, store>>
               ELSE /\ categories' = [categories EXCEPT ![pk] = object]
                    /\ response' = [op |-> "CategoryUpdate", pk |-> pk, request |-> body,
                                    status |-> 200]
                    /\ UNCHANGED <<TOTAL_ON_PAGE, workers, locations, users, user_locations, ads, next_pk>>

(***************************************************************************)
(* DELETE /cat/<pk>/delete/  CategoryDeleteView.delete                     *)
(***************************************************************************)
CategoryDeleteView_delete(pk) ==
    IF pk \notin DOMAIN categories
      THEN /\ response' = [op |-> "CategoryDelete", pk |-> pk, status |-> 404]
           /\ UNCHANGED <<TOTAL_ON_PAGE, workers, store>>
      ELSE /\ Category_delete(pk)
           /\ response' = [op |-> "CategoryDelete", pk |-> pk, status |-> 200,
                           cascade |-> AdsOfCategory(pk)]
           /\ UNCHANGED <<TOTAL_ON_PAGE, workers, locations, users, user_locations, next_pk>>

(***************************************************************************)
(* POST /ad/create/  AdCreateView.post: Ad.objects.create() is called      *)
(* without category, a NOT NULL column: the INSERT raises IntegrityError.  *)
(***************************************************************************)
AdCreateView_post(body) ==
    /\ response' =
         IF "author" \notin DOMAIN body
           THEN [op |-> "AdCreate", request |-> body, status |-> 500, error |-> "KeyError"]
         ELSE IF \A u \in DOMAIN users : users[u].username # body.author
           THEN [op |-> "AdCreate", request |-> body, status |-> 404]
         ELSE IF "category" \notin DOMAIN body
           THEN [op |-> "AdCreate", request |-> body, status |-> 500, error |-> "KeyError"]
         ELSE IF body.category \notin DOMAIN categories
           THEN [op |-> "AdCreate", request |-> body, status |-> 404]
         ELSE [op |-> "AdCreate", request |-> body, status |-> 500, error |-> "IntegrityError"]
    /\ UNCHANGED <<TOTAL_ON_PAGE, workers, store>>

(***************************************************************************)
(* PATCH /ad/<pk>/update/  AdUpdateView.patch: the same Ad.objects.create()*)
(* before anything is set on the ad of the path.                           *)
(***************************************************************************)
AdUpdateView_patch(pk, body) ==
    /\ response' =
         IF pk \notin DOMAIN ads
           THEN [op |-> "AdUpdate", pk |-> pk, request |-> body, status |-> 404]
         ELSE IF "author" \notin DOMAIN body
           THEN [op |-> "AdUpdate", pk |-> pk, request |-> body, status |-> 500,
                 error |-> "KeyError"]
         ELSE IF \A u \in DOMAIN users : users[u].username # body.author
           THEN [op |-> "AdUpdate", pk |-> pk, request |-> body, status |-> 404]
         ELSE [op |-> "AdUpdate", pk |-> pk, request |-> body, status |-> 500,
               error |-> "IntegrityError"]
    /\ UNCHANGED <<TOTAL_ON_PAGE, workers, store>>

(***************************************************************************)
(* DELETE /ad/<pk>/delete/  AdDeleteView.delete                            *)
(***************************************************************************)
AdDeleteView_delete(pk) ==
    IF pk \notin DOMAIN ads
      THEN /\ response' = [op |-> "AdDelete", pk |-> pk, status |-> 404]
           /\ UNCHANGED <<TOTAL_ON_PAGE, workers, store>>
      ELSE /\ ads' = Remove(ads, {pk})
           /\ response' = [op |-> "AdDelete", pk |-> pk, status |-> 200]
           /\ UNCHANGED <<TOTAL_ON_PAGE, workers, categories, locations, users, user_locations, next_pk>>

(***************************************************************************)
(* POST /user/create/  AdUserCreateView.post                               *)
(***************************************************************************)
\* AdUser.objects.create(...): the INSERT fails on a NULL in a NOT NULL column
\* and on a username that is taken.
AdUser_insert_fails(body) ==
    \/ \E k \in {"first_name", "username", "password", "role", "age"} : k \notin DOMAIN body
    \/ \E u \in DOMAIN users : users[u].username = body.username

AdUserCreateView_post(body) ==
    /\ next_pk.user <= MaxUsers
    /\ IF AdUser_insert_fails(body)
         THEN /\ response' = [op |-> "AdUserCreate", request |-> body, status |-> 500,
                              error |-> "IntegrityError"]
              /\ UNCHANGED <<TOTAL_ON_PAGE, workers, store>>
         ELSE LET pk == next_pk.user
                  row == [first_name |-> body.first_name,
                          last_name |-> body_get(body, "last_name"),
                          username |-> body.username,
                          password |-> body.password,
                          role |-> body.role,
                          age |-> body.age]
                  \* iterating None raises TypeError
                  st == IF "location_names" \in DOMAIN body
                          THEN LocationLoop(body.location_names)
                          ELSE [LocationLoop(<< >>) EXCEPT !.error = "TypeError"]
                  raised == IF st.error # None THEN st.error
                            ELSE IF st.location_obj = Unbound THEN "UnboundLocalError"
                            ELSE None
              IN  /\ st.next - 1 <= MaxLocations
                  /\ users' = users @@ (pk :> row)
                  /\ locations' = st.locations
                  /\ next_pk' = [next_pk EXCEPT !.user = pk + 1, !.location = st.next]
                  /\ user_locations' = IF raised # None THEN user_locations
                                       ELSE user_locations \cup {<<pk, st.location_obj>>}
                  /\ response' = IF raised # None
                                   THEN [op |-> "AdUserCreate", request |-> body, status |-> 500,
                                         error |-> raised]
                                   ELSE [op |-> "AdUserCreate", request |-> body, status |-> 200,
                                         id |-> pk,
                                         location_names |-> {locations'[st.location_obj].name}]
                  /\ UNCHANGED <<TOTAL_ON_PAGE, workers, categories, ads>>

(***************************************************************************)
(* PATCH /user/<pk>/update/  AdUserUpdateView.patch                        *)
(***************************************************************************)
AdUserUpdateView_patch(pk, body) ==
    IF pk \notin DOMAIN users
      THEN /\ response' = [op |-> "AdUserUpdate", pk |-> pk, request |-> body, status |-> 404]
           /\ UNCHANGED <<TOTAL_ON_PAGE, workers, store>>
    ELSE IF "location_names" \notin DOMAIN body
      THEN /\ response' = [op |-> "AdUserUpdate", pk |-> pk, request |-> body, status |-> 500,
                           error |-> "TypeError"]
           /\ UNCHANGED <<TOTAL_ON_PAGE, workers, store>>
    ELSE
      LET object == [k \in DOMAIN users[pk] |->
                       IF k \in {"first_name", "last_name", "role", "age"} /\ k \in DOMAIN body
                         THEN body[k] ELSE users[pk][k]]
          st == LocationLoop(body.location_names)
          found == {u \in DOMAIN users : "username" \in DOMAIN body /\ users[u].username = body.username}
          cleaned == [object EXCEPT !.username = body_get(body, "username"),
                                    !.password = body_get(body, "password")]
          \* what ends the handler: an exception, a 404, a 422, or the save
          status == IF st.error # None \/ st.location_obj = Unbound THEN 500
                    ELSE IF "username" \notin DOMAIN body THEN 500
                    ELSE IF found = {} THEN 404
                    ELSE IF "password" \notin DOMAIN body THEN 500
                    ELSE IF ~AdUser_full_clean(pk, cleaned) THEN 422
                    ELSE 200
      IN  /\ st.next - 1 <= MaxLocations
          /\ locations' = st.locations
          /\ next_pk' = [next_pk EXCEPT !.location = st.next]
          /\ user_locations' = IF st.error # None \/ st.location_obj = Unbound
                                 THEN user_locations
                                 ELSE user_locations \cup {<<pk, st.location_obj>>}
          /\ users' = IF status = 200 THEN [users EXCEPT ![pk] = cleaned] ELSE users
          /\ response' = [op |-> "AdUserUpdate", pk |-> pk, request |-> body, status |-> status]
          /\ UNCHANGED <<TOTAL_ON_PAGE, workers, categories, ads>>

(***************************************************************************)
(* DELETE /user/<pk>/delete/  AdUserDeleteView.delete                      *)
(***************************************************************************)
AdUserDeleteView_delete(pk) ==
    IF pk \notin DOMAIN users
      THEN /\ response' = [op |-> "AdUserDelete", pk |-> pk, status |-> 404]
           /\ UNCHANGED <<TOTAL_ON_PAGE, workers, store>>
      ELSE /\ AdUser_delete(pk)
           /\ response' = [op |-> "AdUserDelete", pk |-> pk, status |-> 200,
                           cascade |-> AdsOfAuthor(pk)]
           /\ UNCHANGED <<TOTAL_ON_PAGE, workers, categories, locations, next_pk>>

(***************************************************************************)
(* Stores.                                                                 *)
(***************************************************************************)
\* The server's workers, each serving one request at a time.
Workers == {1, 2}
Idle == [pc |-> "idle"]

CategoryNames == <<"Cars", "Books", "Cars", "Toys", "Pets">>
Prices == {50, 75, 200}

CategoryFixture(n) == [pk \in 1..n |-> [name |-> CategoryNames[pk], is_active |-> TRUE]]

LocationFixture == (1 :> [name |-> "Moscow"])

UserFixture ==
    (1 :> [first_name |-> "Ann", last_name |-> "Lee", username |-> "ann",
           password |-> "pw1", role |-> "member", age |-> 30])

AdRows(category_pks, author_pks) ==
    [name : {"Sofa"}, price : Prices, is_published : {TRUE},
     author : author_pks \cup {NoAuthor}, category : category_pks]

\* Stores that differ only in which pk carries which row are read alike: one
\* store of each such class, its rows in the order of AdRank.
AdRank(row) == 2 * row.price + row.author

NoResponse == [op |-> "none", status |-> 0]

\* The stores the list views are read against: any number of categories, and
\* any ads (with or without an author) over the first category.
InitList ==
    /\ TOTAL_ON_PAGE \in 1..MaxPageSize
    /\ categories \in {CategoryFixture(n) : n \in 0..MaxCategories}
    /\ locations = LocationFixture
    /\ users = UserFixture
    /\ user_locations = {<<1, 1>>}
    /\ \E n \in 0..MaxAds :
         /\ n > 0 => Cardinality(DOMAIN categories) = 1
         /\ ads \in [1..n -> AdRows({1}, {1})]
         /\ \A i, j \in 1..n : i < j => AdRank(ads[i]) <= AdRank(ads[j])
    /\ next_pk = [category |-> Cardinality(DOMAIN categories) + 1, location |-> 2,
                  user |-> 2, ad |-> Cardinality(DOMAIN ads) + 1]
    /\ response = NoResponse
    /\ workers = [w \in Workers |-> Idle]

NextList ==
    \/ \E GET \in PageQueries : CategoryListView_get(GET)
    \/ \E pk \in PathPks : CategoryDetailView_get(pk)
    \/ \E GET \in AdListQueries : AdListView_get(GET)
    \/ \E filters \in FilterQueries : AdListPages(filters)
    \/ \E pk \in PathPks : AdDetailView_get(pk)
    \/ \E GET \in PageQueries : AdUserListView_get(GET)
    \/ \E pk \in PathPks : AdUserDetailView_get(pk)

SpecList == InitList /\ [][NextList]_vars

(***************************************************************************)
(* The bodies of the requests that write.                                  *)
(***************************************************************************)
SubBodies(body) == {[k \in K |-> body[k]] : K \in SUBSET DOMAIN body}

CategoryCreateBodies == {[name |-> "Toys", is_active |-> FALSE]}
CategoryUpdateBodies ==
    UNION {SubBodies([name |-> n, is_active |-> FALSE]) : n \in {"Toys", LongName}}

AdBodies ==
    {[name |-> "Desk", price |-> 10, is_published |-> TRUE] @@ b :
        b \in UNION {SubBodies([author |-> a, category |-> c]) : a \in {"ann", "zed"}, c \in {1, 9}}}

NewUser(username, location_names) ==
    [first_name |-> "Cyd", last_name |-> "Roe", username |-> username, password |-> "pw2",
     role |-> "member", age |-> 25, location_names |-> location_names]
AdUserCreateBodies ==
    {NewUser(u, l) : u \in {"ann", "cyd"}, l \in LocationLists}
        \cup {Drop(NewUser("cyd", <<"Moscow">>), k) : k \in {"role", "location_names"}}

AdUserUpdateBodies ==
    LET Complete == {opt @@ [location_names |-> l, username |-> u, password |-> "pw2"] :
                        opt \in SubBodies([first_name |-> "Bob", role |-> "boss"]),
                        l \in LocationLists, u \in {"ann", "bob", "zed"}}
        base == [first_name |-> "Bob", location_names |-> <<"Moscow">>, username |-> "ann",
                 password |-> "pw2"]
    IN  Complete \cup {Drop(base, k) : k \in {"location_names", "username", "password"}}

(***************************************************************************)
(* The store the writing requests start from: two categories, the users    *)
(* ann and bob, no location yet, and ads of ann, of bob and of nobody.     *)
(***************************************************************************)
AdFixture(n) ==
    [pk \in 1..n |->
        [name |-> "Sofa",
         price |-> <<50, 200, 75, 200>>[pk],
         is_published |-> TRUE,
         author |-> pk % 3,
         category |-> IF pk = 1 THEN 1 ELSE 2]]

Init ==
    /\ TOTAL_ON_PAGE = MaxPageSize
    /\ categories = CategoryFixture(2)
    /\ locations = << >>
    /\ users = UserFixture @@
                 (2 :> [first_name |-> "Bob", last_name |-> "Ray", username |-> "bob",
                        password |-> "pw1", role |-> "member", age |-> 40])
    /\ user_locations = {}
    /\ ads = AdFixture(MaxAds)
    /\ next_pk = [category |-> 3, location |-> 1, user |-> 3, ad |-> MaxAds + 1]
    /\ response = NoResponse
    /\ workers = [w \in Workers |-> Idle]

\* The requests that create and delete rows.
NextCreateDelete ==
    \/ \E body \in CategoryCreateBodies : CategoryCreateView_post(body)
    \/ \E pk \in PathPks : CategoryDeleteView_delete(pk)
    \/ \E body \in AdBodies : AdCreateView_post(body)
    \/ \E pk \in PathPks : AdDeleteView_delete(pk)
    \/ \E body \in AdUserCreateBodies : AdUserCreateView_post(body)
    \/ \E pk \in PathPks : AdUserDeleteView_delete(pk)

\* The requests that update rows.
NextUpdate ==
    \/ \E pk \in UpdatePks, body \in CategoryUpdateBodies : CategoryUpdateView_patch(pk, body)
    \/ \E pk \in UpdatePks, body \in AdBodies : AdUpdateView_patch(pk, body)
    \/ \E pk \in UpdatePks, body \in AdUserUpdateBodies : AdUserUpdateView_patch(pk, body)

Next == NextList \/ NextCreateDelete \/ NextUpdate

SpecCreateDelete == Init /\ [][NextCreateDelete]_vars
SpecUpdate == Init /\ [][NextUpdate]_vars
Spec == Init /\ [][Next]_vars

(***************************************************************************)
(* The user views served by several workers at once.  Nothing in the views *)
(* is wrapped in a transaction, so each query of a handler is committed on *)
(* its own and the queries of two requests interleave; one action is one   *)
(* query of one request.  A worker in a handler is                         *)
(*   [pc, op, pk, body, object, names, location_obj]                       *)
(* pk and object: the AdUser of the request, as loaded or created; names:  *)
(* the location names the loop has still to visit.                         *)
(***************************************************************************)
\* The unique index of AdUser.username: no other row carries `username`.
\* What every AdUser has, as with unique=False.
AdUser_username_not_indexed(pk, username) == TRUE

AdUser_username_unique(pk, username) ==
    \A other \in DOMAIN users \ {pk} : users[other].username # username

\* Location has no unique column: its rows are only bounded in number.
MaxLocationRows == MaxLocations + 1

\* The worker returns `resp` and is free for the next request.
Respond(w, resp) ==
    /\ workers' = [workers EXCEPT ![w] = Idle]
    /\ response' = resp

InLoop(w, op, pk, body, object) ==
    workers' = [workers EXCEPT ![w] =
                  [pc |-> "loop", op |-> op, pk |-> pk, body |-> body, object |-> object,
                   names |-> body.location_names, location_obj |-> Unbound]]

\* POST /user/create/: AdUser.objects.create(...), the INSERT.
AdUserCreateView_post_create(w, body) ==
    /\ workers[w] = Idle
    /\ next_pk.user <= MaxUsers
    /\ LET pk == next_pk.user
           row == [first_name |-> body_get(body, "first_name"),
                   last_name |-> body_get(body, "last_name"),
                   username |-> body_get(body, "username"),
                   password |-> body_get(body, "password"),
                   role |-> body_get(body, "role"),
                   age |-> body_get(body, "age")]
       IN  IF \/ \E k \in {"first_name", "username", "password", "role", "age"} : k \notin DOMAIN body
              \/ ~AdUser_username_unique(pk, body.username)
             THEN /\ Respond(w, [op |-> "AdUserCreate", request |-> body, status |-> 500,
                                 error |-> "IntegrityError"])
                  /\ UNCHANGED <<TOTAL_ON_PAGE, store>>
             ELSE /\ users' = users @@ (pk :> row)
                  /\ next_pk' = [next_pk EXCEPT !.user = pk + 1]
                  /\ IF "location_names" \notin DOMAIN body
                       THEN Respond(w, [op |-> "AdUserCreate", request |-> body, status |-> 500,
                                        error |-> "TypeError"])
                       ELSE InLoop(w, "AdUserCreate", pk, body, row) /\ UNCHANGED response
                  /\ UNCHANGED <<TOTAL_ON_PAGE, categories, locations, user_locations, ads>>

\* PATCH /user/<pk>/update/: get_object(), then the optional fields are set
\* on the loaded object.
AdUserUpdateView_patch_get_object(w, pk, body) ==
    /\ workers[w] = Idle
    /\ IF pk \notin DOMAIN users
         THEN Respond(w, [op |-> "AdUserUpdate", pk |-> pk, request |-> body, status |-> 404])
       ELSE IF "location_names" \notin DOMAIN body
         THEN Respond(w, [op |-> "AdUserUpdate", pk |-> pk, request |-> body, status |-> 500,
                          error |-> "TypeError"])
       ELSE /\ InLoop(w, "AdUserUpdate", pk, body,
                      [k \in DOMAIN users[pk] |->
                         IF k \in {"first_name", "last_name", "role", "age"} /\ k \in DOMAIN body
                           THEN body[k] ELSE users[pk][k]])
            /\ UNCHANGED response
    /\ UNCHANGED <<TOTAL_ON_PAGE, store>>

\* The response of the request of worker state `me`.
Answer(me, status) ==
    IF me.op = "AdUserUpdate"
      THEN [op |-> me.op, pk |-> me.pk, request |-> me.body, status |-> status]
      ELSE [op |-> me.op, request |-> me.body, status |-> status]

\* get_or_create, its SELECT: Location.objects.get(name=location).
Location_get(w) ==
    /\ workers[w].pc = "loop"
    /\ workers[w].names # << >>
    /\ LET name == Head(workers[w].names)
           found == {pk \in DOMAIN locations : locations[pk].name = name}
       IN  IF Cardinality(found) > 1
             THEN Respond(w, Answer(workers[w], 500) @@ [error |-> "MultipleObjectsReturned"])
           ELSE IF found # {}
             THEN /\ workers' = [workers EXCEPT ![w].location_obj = CHOOSE pk \in found : TRUE,
                                                ![w].names = Tail(@)]
                  /\ UNCHANGED response
           ELSE /\ workers' = [workers EXCEPT ![w].pc = "create"]
                /\ UNCHANGED response
    /\ UNCHANGED <<TOTAL_ON_PAGE, store>>

\* get_or_create, its INSERT after the SELECT found no row.
Location_create(w) ==
    /\ workers[w].pc = "create"
    /\ next_pk.location <= MaxLocationRows
    /\ locations' = locations @@ (next_pk.location :> [name |-> Head(workers[w].names)])
    /\ next_pk' = [next_pk EXCEPT !.location = @ + 1]
    /\ workers' = [workers EXCEPT ![w].pc = "loop",
                                  ![w].location_obj = next_pk.location,
                                  ![w].names = Tail(@)]
    /\ UNCHANGED <<TOTAL_ON_PAGE, categories, users, user_locations, ads, response>>

\* location_names.add(location_obj), after the loop; the through row needs
\* its AdUser row.  A created user is answered here.
location_names_add(w) ==
    /\ workers[w].pc = "loop"
    /\ workers[w].names = << >>
    /\ LET me == workers[w]
           raised == IF me.location_obj = Unbound THEN "UnboundLocalError"
                     ELSE IF me.pk \notin DOMAIN users THEN "IntegrityError"
                     ELSE None
       IN  /\ user_locations' = IF raised # None THEN user_locations
                                ELSE user_locations \cup {<<me.pk, me.location_obj>>}
           /\ IF raised # None
                THEN Respond(w, Answer(me, 500) @@ [error |-> raised])
              ELSE IF me.op = "AdUserCreate"
                THEN Respond(w, Answer(me, 200) @@
                                  [id |-> me.pk,
                                   location_names |-> {locations[me.location_obj].name}])
              ELSE /\ workers' = [workers EXCEPT ![w].pc = "lookup"]
                   /\ UNCHANGED response
    /\ UNCHANGED <<TOTAL_ON_PAGE, categories, locations, users, ads, next_pk>>

\* get_object_or_404(AdUser, username=ad_user_data["username"]), and the
\* password of the body.
AdUserUpdateView_patch_lookup(w) ==
    /\ workers[w].pc = "lookup"
    /\ LET me == workers[w]
       IN  IF "username" \notin DOMAIN me.body THEN Respond(w, Answer(me, 500))
           ELSE IF \A u \in DOMAIN users : users[u].username # me.body.username
             THEN Respond(w, Answer(me, 404))
           ELSE IF "password" \notin DOMAIN me.body THEN Respond(w, Answer(me, 500))
           ELSE /\ workers' = [workers EXCEPT ![w].pc = "full_clean",
                                              ![w].object.username = me.body.username,
                                              ![w].object.password = me.body.password]
                /\ UNCHANGED response
    /\ UNCHANGED <<TOTAL_ON_PAGE, store>>

\* self.object.full_clean(), with the query of validate_unique.
AdUserUpdateView_patch_full_clean(w) ==
    /\ workers[w].pc = "full_clean"
    /\ IF ~AdUser_full_clean(workers[w].pk, workers[w].object)
         THEN Respond(w, Answer(workers[w], 422))
         ELSE /\ workers' = [workers EXCEPT ![w].pc = "save"]
              /\ UNCHANGED response
    /\ UNCHANGED <<TOTAL_ON_PAGE, store>>

\* self.object.save(): an UPDATE of the row, an INSERT if the row is gone.
\* `at` in the response tells this IntegrityError from the one of add().
AdUserUpdateView_patch_save(w) ==
    /\ workers[w].pc = "save"
    /\ LET me == workers[w]
       IN  IF ~AdUser_username_unique(me.pk, me.object.username)
             THEN /\ Respond(w, Answer(me, 500) @@ [error |-> "IntegrityError", at |-> "save"])
                  /\ users' = users
             ELSE /\ Respond(w, Answer(me, 200))
                  /\ users' = (me.pk :> me.object) @@ users
    /\ UNCHANGED <<TOTAL_ON_PAGE, categories, locations, user_locations, ads, next_pk>>

\* DELETE /user/<pk>/delete/: get_object().
AdUserDeleteView_delete_get_object(w, pk) ==
    /\ workers[w] = Idle
    /\ IF pk \notin DOMAIN users
         THEN Respond(w, [op |-> "AdUserDelete", pk |-> pk, status |-> 404])
         ELSE /\ workers' = [workers EXCEPT ![w] = [pc |-> "delete", op |-> "AdUserDelete", pk |-> pk]]
              /\ UNCHANGED response
    /\ UNCHANGED <<TOTAL_ON_PAGE, store>>

\* super().delete(): get_object() once more, then self.object.delete(), the
\* row and what cascades from it.
AdUserDeleteView_delete_delete(w) ==
    /\ workers[w].pc = "delete"
    /\ IF workers[w].pk \notin DOMAIN users
         THEN /\ Respond(w, [op |-> "AdUserDelete", pk |-> workers[w].pk, status |-> 404])
              /\ UNCHANGED <<users, user_locations, ads>>
         ELSE /\ AdUser_delete(workers[w].pk)
              /\ Respond(w, [op |-> "AdUserDelete", pk |-> workers[w].pk, status |-> 200,
                             cascade |-> AdsOfAuthor(workers[w].pk)])
    /\ UNCHANGED <<TOTAL_ON_PAGE, categories, locations, next_pk>>

ConcurrentCreateBodies ==
    {NewUser(u, l) : u \in {"bob", "cyd"}, l \in {<< >>, <<"Moscow">>, <<"Tula", "Moscow">>}}
ConcurrentUpdateBodies ==
    {[location_names |-> <<"Moscow">>, username |-> u, password |-> "pw2"] : u \in {"ann", "bob"}}

NextConcurrent ==
    \/ \E w \in Workers, body \in ConcurrentCreateBodies : AdUserCreateView_post_create(w, body)
    \/ \E w \in Workers, pk \in UpdatePks, body \in ConcurrentUpdateBodies :
          AdUserUpdateView_patch_get_object(w, pk, body)
    \/ \E w \in Workers : Location_get(w)
    \/ \E w \in Workers : Location_create(w)
    \/ \E w \in Workers : location_names_add(w)
    \/ \E w \in Workers : AdUserUpdateView_patch_lookup(w)
    \/ \E w \in Workers : AdUserUpdateView_patch_full_clean(w)
    \/ \E w \in Workers : AdUserUpdateView_patch_save(w)
    \/ \E w \in Workers, pk \in PathPks : AdUserDeleteView_delete_get_object(w, pk)
    \/ \E w \in Workers : AdUserDeleteView_delete_delete(w)

SpecConcurrent == Init /\ [][NextConcurrent]_vars

(***************************************************************************)
(* The ad list as the specification describes it: the filters of a query   *)
(* string and the ads they select.                                         *)
(***************************************************************************)
\* The lower-case forms of the names of the model, for icontains.
Lower == [n \in {"Sofa", "Moscow", "Tula"} |->
            CASE n = "Sofa" -> "sofa" [] n = "Moscow" -> "moscow" [] n = "Tula" -> "tula"]
IContains(hay, needle) == hay \in DOMAIN Lower /\ Lower[hay] = needle

FilterKeys == {"cat", "text", "loc", "price_from", "price_to"}
Filters(GET) == [k \in DOMAIN GET \cap FilterKeys |-> GET[k]]

\* ad row `ad` satisfies every filter that GET supplies.
Matches(ad, GET) ==
    /\ "cat" \in DOMAIN GET => ad.category = IntLiterals[GET["cat"]]
    /\ "text" \in DOMAIN GET => IContains(ad.name, GET["text"])
    /\ "loc" \in DOMAIN GET =>
          \E p \in user_locations : p[1] = ad.author /\ IContains(locations[p[2]].name, GET["loc"])
    /\ "price_from" \in DOMAIN GET => ad.price >= IntLiterals[GET["price_from"]]
    /\ "price_to" \in DOMAIN GET => ad.price <= IntLiterals[GET["price_to"]]

Matching(GET) == {pk \in DOMAIN ads : Matches(ads[pk], GET)}

\* The sub-queries of a query: the same values for fewer keys.
SubQueries(GET) == {[k \in K |-> GET[k]] : K \in SUBSET DOMAIN GET}

RECURSIVE Concat(_)
Concat(ss) == IF ss = << >> THEN << >> ELSE Head(ss) \o Concat(Tail(ss))

ListOps == {"CategoryList", "AdList", "AdUserList"}

\* The client of AdListPages has asked for every page.
AllPagesRead ==
    /\ response.op = "AdListPages"
    /\ \/ response.pages[1].status # 200
       \/ Len(response.pages) = response.pages[1].num_pages

\* C1: the pages 1..num_pages of the ad list, put end to end, hold every
\* matching ad exactly once, in descending order of price, and total is the sum
\* of the page lengths.
C1_PagesCoverTheList ==
    AllPagesRead =>
        /\ \A p \in DOMAIN response.pages : response.pages[p].status = 200
        /\ LET all == Concat([p \in DOMAIN response.pages |-> response.pages[p].items])
           IN  /\ {all[i].id : i \in DOMAIN all} = Matching(response.GET)
               /\ \A i, j \in DOMAIN all : i < j => all[i].id # all[j].id /\ all[i].price >= all[j].price
               /\ \A p \in DOMAIN response.pages : response.pages[p].total = Len(all)

\* C2: an ad is in the result of GET /ad/ exactly if it satisfies every filter
\* of the query string: every item matches, and total counts the matching ads.
C2_FiltersSelect ==
    (response.op = "AdList" /\ response.status = 200) =>
        /\ \A i \in DOMAIN response.items : response.items[i].id \in Matching(response.GET)
        /\ response.total = Cardinality(Matching(response.GET))

\* C3: with fewer filters the ad list matches no fewer ads: the ads selected
\* for the query of a request include, for each of its sub-queries, the ads
\* selected for the whole query; without filters every stored ad is selected.
C3_FewerFiltersMatchMore ==
    response.op = "AdList" =>
        /\ \A A \in SubQueries(Filters(response.GET)) :
             \A sA \in AdQuerySets(A), sB \in AdQuerySets(response.GET) : Range(sB) \subseteq Range(sA)
        /\ \A s \in AdQuerySets(<< >>) : Range(s) = DOMAIN ads
        /\ response.status = 200 =>
             \A A \in SubQueries(Filters(response.GET)) :
                 \A sA \in AdQuerySets(A) :
                     /\ response.total <= Len(sA)
                     /\ \A i \in DOMAIN response.items : response.items[i].id \in Range(sA)

\* An ad list over several ads was answered for a query with all five filters.
C3_Witness ==
    /\ response.op = "AdList"
    /\ response.status = 200
    /\ DOMAIN Filters(response.GET) = FilterKeys
    /\ response.total >= 2

\* C4: an ad without author is listed and shown with author null and no
\* location names, and the request does not fail.
C4_NullAuthorProjected ==
    /\ response.op = "AdList" => response.status = 200
    /\ (response.op = "AdDetail" /\ response.pk \in DOMAIN ads) =>
          /\ response.status = 200
          /\ ads[response.pk].author = NoAuthor =>
                response.body.author = None /\ response.body.location_names = {}

\* C7: every list endpoint answers every page value; it serves page 1 when the
\* page is absent or below 1, and the last page when it is beyond the last.
C7_PagerClamps ==
    response.op \in ListOps =>
        /\ response.status = 200
        /\ LET page == GET_get(response.GET, "page")
           IN  /\ page = None => response.number = 1
               /\ (page \in DOMAIN IntLiterals /\ IntLiterals[page] < 1) => response.number = 1
               /\ (page \in DOMAIN IntLiterals /\ IntLiterals[page] > response.num_pages) =>
                     response.number = response.num_pages

\* C8 as stated: num_pages = ceil(total / TOTAL_ON_PAGE), also for an empty list.
C8_NumPagesIsCeil ==
    (response.op \in ListOps /\ response.status = 200) =>
        /\ response.num_pages * TOTAL_ON_PAGE >= response.total
        /\ (response.num_pages - 1) * TOTAL_ON_PAGE < response.total

\* C8: in the envelope of a list response, total is the number of records of
\* the list and num_pages is ceil(total / TOTAL_ON_PAGE), except that an empty
\* list has num_pages = 1.
C8_NumPages ==
    (response.op \in ListOps /\ response.status = 200) =>
        /\ response.total = IF response.op = "AdList" THEN Cardinality(DOMAIN ads)
                            ELSE Cardinality(DOMAIN categories)
        /\ IF response.total = 0
             THEN response.num_pages = 1
             ELSE /\ response.num_pages * TOTAL_ON_PAGE >= response.total
                  /\ (response.num_pages - 1) * TOTAL_ON_PAGE < response.total

\* A list response for an empty table, and one of several pages.
C8_Witness ==
    /\ response.op \in ListOps
    /\ response.status = 200
    /\ response.total = 0

\* C5: the ads of a deleted category and of a deleted user are deleted with
\* it, so every stored ad has an existing category and, if it has an author, an
\* existing one.
C5_CascadeDelete ==
    /\ \A a \in DOMAIN ads :
          /\ ads[a].category \in DOMAIN categories
          /\ ads[a].author = NoAuthor \/ ads[a].author \in DOMAIN users
    /\ (response.op = "CategoryDelete" /\ response.status = 200) =>
          /\ response.pk \notin DOMAIN categories
          /\ response.cascade \cap DOMAIN ads = {}
    /\ (response.op = "AdUserDelete" /\ response.status = 200) =>
          /\ response.pk \notin DOMAIN users
          /\ response.cascade \cap DOMAIN ads = {}
          /\ \A p \in user_locations : p[1] # response.pk

\* A user with ads has just been deleted, after a category that had several ads.
C5_Witness ==
    /\ response.op = "AdUserDelete"
    /\ response.status = 200
    /\ response.cascade # {}
    /\ 2 \notin DOMAIN categories
    /\ Cardinality(DOMAIN ads) + Cardinality(response.cascade) < MaxAds

\* C6: a user created with k distinct location names that no Location has yet
\* gets a Location row for each name and is associated with all k of them.
C6_CreateLinksAllLocations ==
    [][(/\ response'.op = "AdUserCreate"
        /\ DOMAIN users' # DOMAIN users
        /\ "location_names" \in DOMAIN response'.request
        /\ response'.request.location_names # << >>
        /\ \A pk \in DOMAIN locations :
              locations[pk].name \notin Range(response'.request.location_names))
       => (/\ response'.status = 200
           /\ \A n \in Range(response'.request.location_names) :
                 \E pk \in DOMAIN locations' : locations'[pk].name = n
           /\ \A u \in DOMAIN users' \ DOMAIN users :
                 {locations'[p[2]].name : p \in {q \in user_locations' : q[1] = u}}
                     = Range(response'.request.location_names))]_vars

UpdateOps == {"CategoryUpdate", "AdUpdate", "AdUserUpdate"}

\* C9: an update that ends with 422 leaves the store as it was.
C9_RejectedUpdateHasNoEffect ==
    [][(response'.op \in UpdateOps /\ response'.status = 422) => UNCHANGED store]_vars

\* The row `row` with the fields that `body` supplies set to the body's values.
Patched(row, body) == [k \in DOMAIN row |-> IF k \in DOMAIN body THEN body[k] ELSE row[k]]

\* C10: a PATCH with valid values for some of the fields of an existing
\* Category, Ad or AdUser succeeds, sets the supplied fields of that row and
\* leaves its other fields and all other rows as they were.
C10_PartialUpdate ==
    [][/\ (/\ response'.op = "CategoryUpdate"
           /\ response'.pk \in DOMAIN categories
           /\ DOMAIN response'.request # {}
           /\ "name" \in DOMAIN response'.request => response'.request.name # LongName)
          => /\ response'.status = 200
             /\ categories' = [categories EXCEPT
                                 ![response'.pk] = Patched(categories[response'.pk], response'.request)]
             /\ UNCHANGED <<users, ads>>
       /\ (/\ response'.op = "AdUserUpdate"
           /\ response'.pk \in DOMAIN users
           /\ "role" \in DOMAIN response'.request => response'.request.role \in ROLES
           /\ "username" \in DOMAIN response'.request =>
                 response'.request.username = users[response'.pk].username)
          => /\ response'.status = 200
             /\ users' = [users EXCEPT
                            ![response'.pk] = Patched(users[response'.pk], response'.request)]
             /\ UNCHANGED <<categories, ads>>
       /\ (/\ response'.op = "AdUpdate"
           /\ response'.pk \in DOMAIN ads
           /\ "author" \notin DOMAIN response'.request
           /\ "category" \notin DOMAIN response'.request)
          => /\ response'.status = 200
             /\ ads' = [ads EXCEPT ![response'.pk] = Patched(ads[response'.pk], response'.request)]
             /\ UNCHANGED <<categories, users>>]_vars

\* The request answered by response' names something that does not exist: the
\* pk of its path, the author username or the category id of its body.
Unresolved ==
    LET op == response'.op
        body == response'.request
    IN  \/ op = "CategoryUpdate" /\ response'.pk \notin DOMAIN categories
        \/ op = "AdUpdate" /\ response'.pk \notin DOMAIN ads
        \/ op = "AdUserUpdate" /\ response'.pk \notin DOMAIN users
        \/ /\ op \in {"AdCreate", "AdUpdate"}
           /\ \/ /\ "author" \in DOMAIN body
                 /\ \A u \in DOMAIN users : users[u].username # body.author
              \/ /\ "category" \in DOMAIN body
                 /\ body.category \notin DOMAIN categories
        \/ /\ op = "AdUserUpdate"
           /\ "username" \in DOMAIN body
           /\ \A u \in DOMAIN users : users[u].username # body.username

\* C12: a create or update request that names an author username, a category
\* id or a path id that does not exist ends with 404 and leaves the store as
\* it was.
C12_NotFoundHasNoEffect ==
    [][(response'.op \in UpdateOps \cup {"AdCreate"} /\ Unresolved)
          => (response'.status = 404 /\ UNCHANGED store)]_vars

\* C13: while the store is unchanged, GET /ad/ asked twice with the same query
\* string answers the same items in the same order.
C13_AdListDeterministic ==
    [][(/\ response.op = "AdList" /\ response'.op = "AdList"
        /\ response.GET = response'.GET
        /\ UNCHANGED store)
          => response' = response]_vars

\* C11: no two stored AdUsers have the same username, whatever user create,
\* update and delete requests have run, one after the other or interleaved.
C11_UsernameUnique ==
    \A u1, u2 \in DOMAIN users : users[u1].username = users[u2].username => u1 = u2

\* The save of a user update was refused by the unique index: the username
\* had passed full_clean and was taken by another request before the save.
C11_Witness ==
    /\ response.op = "AdUserUpdate"
    /\ response.status = 500
    /\ "error" \in DOMAIN response
    /\ response.error = "IntegrityError"
    /\ "at" \in DOMAIN response
    /\ \E u \in DOMAIN users \ {response.pk} : users[u].username = response.request.username

\* C14: there is at most one Location row for each name, whatever user create
\* and update requests with location_names have run, also concurrently.
C14_OneLocationPerName ==
    \A l1, l2 \in DOMAIN locations : locations[l1].name = locations[l2].name => l1 = l2

====
